---------------------------- MODULE Spec2Model ----------------------------
(***************************************************************************)
(* A model of package safehtml's JSON type (json.go): the wrapper struct,  *)
(* its constructors, JSONConcat and String, together with the two          *)
(* collaborators the constructors call: encoding/json (Unmarshal into an   *)
(* `any`, Marshal of the tree) and coerceToUTF8InterchangeValid.           *)
(*                                                                         *)
(* A Go string is modelled as a sequence of units.  A unit >= 0 is the     *)
(* code point of one validly encoded UTF-8 character; a unit < 0 is one    *)
(* byte that is not part of any valid encoding (-255 is the byte 0xFF,     *)
(* and -237, -160, -128 are the three bytes of an encoded surrogate, each  *)
(* of which Go decodes as an error of width one).                          *)
(***************************************************************************)
EXTENDS Integers, Sequences, FiniteSets, TLC

\* ------------------------------------------------------------------------
\* Characters
\* ------------------------------------------------------------------------

\* The printable ASCII characters in code order, U+0020 .. U+007E ("grave"
\* stands at the place of U+0060).
Ascii ==
    << " ", "!", "\"", "#", "$", "%", "&", "'", "(", ")", "*", "+", ",", "-",
       ".", "/", "0", "1", "2", "3", "4", "5", "6", "7", "8", "9", ":", ";",
       "<", "=", ">", "?", "@", "A", "B", "C", "D", "E", "F", "G", "H", "I",
       "J", "K", "L", "M", "N", "O", "P", "Q", "R", "S", "T", "U", "V", "W",
       "X", "Y", "Z", "[", "\\", "]", "^", "_", "grave", "a", "b", "c", "d", "e",
       "f", "g", "h", "i", "j", "k", "l", "m", "n", "o", "p", "q", "r", "s",
       "t", "u", "v", "w", "x", "y", "z", "{", "|", "}", "~" >>

\* The code point of a printable ASCII character.
Code(ch) == 31 + (CHOOSE i \in DOMAIN Ascii : Ascii[i] = ch)

\* The text whose characters are the given printable ASCII characters.
Text(chars) == [i \in DOMAIN chars |-> Code(chars[i])]

RECURSIVE Flatten(_)
\* The concatenation of a sequence of texts.
Flatten(ss) == IF ss = << >> THEN << >> ELSE Head(ss) \o Flatten(Tail(ss))

\* unicode.ReplacementChar / utf8.RuneError, U+FFFD.
RuneError == 16 * 16 * 16 * 15 + 16 * 16 * 15 + 16 * 15 + 13

\* A unit that is a byte outside every valid UTF-8 encoding.
IsInvalidByte(u) == u < 0

\* utf8.ValidString: every byte belongs to a valid encoding.
ValidUTF8(s) == \A i \in DOMAIN s : ~IsInvalidByte(s[i])

\* ------------------------------------------------------------------------
\* encoding/json: the value tree Unmarshal builds in an `any`
\* ------------------------------------------------------------------------

Nil == "nil"

\* nil, bool, float64, string, []any and map[string]any.  A float64 is held
\* as its shortest decimal: sign, significant digits without leading or
\* trailing zeros, and the exponent x of d1.d2d3... * 10^x.  The two agree
\* for decimals of at most 15 significant digits in the normal range, which
\* covers every number the model reads.
NullTree == [t |-> "null"]
BoolTree(b) == [t |-> "bool", b |-> b]
NumTree(neg, digs, x) == [t |-> "num", neg |-> neg, digs |-> digs, x |-> x]
StrTree(s) == [t |-> "str", s |-> s]
ArrTree(a) == [t |-> "arr", a |-> a]
ObjTree(o) == [t |-> "obj", o |-> o]

DQuote == Code("\"")
BSlash == Code("\\")
Slash == Code("/")
LBrace == Code("{")
RBrace == Code("}")
LBracket == Code("[")
RBracket == Code("]")
Comma == Code(",")
Colon == Code(":")
Minus == Code("-")
Plus == Code("+")
Dot == Code(".")
Zero == Code("0")
Nine == Code("9")
LowerA == Code("a")
LowerF == Code("f")
UpperA == Code("A")
UpperF == Code("F")
LowerE == Code("e")
UpperE == Code("E")
LowerU == Code("u")
LowerB == Code("b")
LowerN == Code("n")
LowerR == Code("r")
LowerT == Code("t")
Space == Code(" ")
LessThan == Code("<")
GreaterThan == Code(">")
Ampersand == Code("&")
Apostrophe == Code("'")
TrueText == Text(<<"t", "r", "u", "e">>)
FalseText == Text(<<"f", "a", "l", "s", "e">>)
NullText == Text(<<"n", "u", "l", "l">>)

\* scanner.go isSpace: space, tab, carriage return, line feed.
IsSpace(c) == c \in {Space, 9, 13, 10}

RECURSIVE SkipSpace(_, _)
\* The first index >= i of s that holds no white space.
SkipSpace(s, i) ==
    IF i <= Len(s) /\ IsSpace(s[i]) THEN SkipSpace(s, i + 1) ELSE i

IsDigit(c) == c >= Zero /\ c <= Nine

RECURSIVE DigitsEnd(_, _)
\* The first index >= i of s that holds no decimal digit.
DigitsEnd(s, i) ==
    IF i <= Len(s) /\ IsDigit(s[i]) THEN DigitsEnd(s, i + 1) ELSE i

\* The value of a hexadecimal digit, -1 for any other unit.
HexValue(c) ==
    IF IsDigit(c) THEN c - Zero
    ELSE IF c >= LowerA /\ c <= LowerF THEN c - LowerA + 10
    ELSE IF c >= UpperA /\ c <= UpperF THEN c - UpperA + 10
    ELSE -1

\* decode.go getu4: the code unit of the \uXXXX escape at s[i..i+5], or -1.
getu4(s, i) ==
    IF i + 5 > Len(s) \/ s[i] # BSlash \/ s[i + 1] # LowerU THEN -1
    ELSE LET h == [k \in 1..4 |-> HexValue(s[i + 1 + k])]
         IN IF \E k \in 1..4 : h[k] < 0 THEN -1
            ELSE ((h[1] * 16 + h[2]) * 16 + h[3]) * 16 + h[4]

\* utf16.IsSurrogate: 0xD800 <= r < 0xE000.
IsSurrogate(r) == r >= 55296 /\ r < 57344

\* utf16.DecodeRune: the code point of a surrogate pair, U+FFFD otherwise.
DecodeRune(r1, r2) ==
    IF r1 >= 55296 /\ r1 < 56320 /\ r2 >= 56320 /\ r2 < 57344
    THEN (r1 - 55296) * 1024 + (r2 - 56320) + 65536
    ELSE RuneError

Fail == [ok |-> FALSE]

\* The character a two-character escape stands for, -1 if it is none
\* (scanner.go stateInStringEsc accepts b f n r t \ / " and u only).
EscapeChar(e) ==
    CASE e = DQuote -> DQuote
      [] e = BSlash -> BSlash
      [] e = Slash -> Slash
      [] e = LowerB -> 8
      [] e = LowerF -> 12
      [] e = LowerN -> 10
      [] e = LowerR -> 13
      [] e = LowerT -> 9
      [] OTHER -> -1

RECURSIVE unquote(_, _, _)
\* The string literal whose opening quote precedes s[i]: scanner.go
\* stateInString rejects an unterminated literal, a raw control character
\* and an unknown escape; decode.go unquote resolves the escapes and
\* replaces every byte of an invalid encoding by U+FFFD.
unquote(s, i, acc) ==
    IF i > Len(s) THEN Fail
    ELSE LET c == s[i] IN
         IF c = DQuote THEN [ok |-> TRUE, v |-> acc, i |-> i + 1]
         ELSE IF c = BSlash THEN
             IF i + 1 > Len(s) THEN Fail
             ELSE IF s[i + 1] = LowerU THEN
                 LET rr == getu4(s, i) IN
                 IF rr < 0 THEN Fail
                 ELSE IF IsSurrogate(rr) THEN
                     LET dec == DecodeRune(rr, getu4(s, i + 6)) IN
                     IF dec # RuneError
                     THEN unquote(s, i + 12, Append(acc, dec))
                     ELSE unquote(s, i + 6, Append(acc, RuneError))
                 ELSE unquote(s, i + 6, Append(acc, rr))
             ELSE IF EscapeChar(s[i + 1]) < 0 THEN Fail
             ELSE unquote(s, i + 2, Append(acc, EscapeChar(s[i + 1])))
         ELSE IF c >= 0 /\ c < 32 THEN Fail
         ELSE IF IsInvalidByte(c) THEN unquote(s, i + 1, Append(acc, RuneError))
         ELSE unquote(s, i + 1, Append(acc, c))

\* ------------------------------------------------------------------------
\* encoding/json: numbers (decode.go convertNumber, strconv.ParseFloat)
\* ------------------------------------------------------------------------

RECURSIVE StripLeadingZeros(_)
StripLeadingZeros(d) ==
    IF d # << >> /\ Head(d) = 0 THEN StripLeadingZeros(Tail(d)) ELSE d

RECURSIVE StripTrailingZeros(_)
StripTrailingZeros(d) ==
    IF d # << >> /\ d[Len(d)] = 0
    THEN StripTrailingZeros(SubSeq(d, 1, Len(d) - 1))
    ELSE d

RECURSIVE ExponentValue(_, _)
\* The value of a run of exponent digits, saturating far outside float64.
ExponentValue(d, acc) ==
    IF d = << >> THEN acc
    ELSE ExponentValue(Tail(d), IF acc >= 100000 THEN acc ELSE acc * 10 + Head(d))

\* The leading digits of math.MaxFloat64 plus half a unit in the last place,
\* 1.797693134862315807e308: a decimal at or above it rounds to +Inf.
MaxFloatDigits == << 1, 7, 9, 7, 6, 9, 3, 1, 3, 4, 8, 6, 2, 3, 1, 5, 8, 0, 7 >>

RECURSIVE DigitsAtLeast(_, _)
\* d1.d2d3... >= e1.e2e3..., digit by digit, missing digits being zeros.
DigitsAtLeast(d, e) ==
    IF e = << >> THEN TRUE
    ELSE IF d = << >> THEN \A i \in DOMAIN e : e[i] = 0
    ELSE IF Head(d) # Head(e) THEN Head(d) > Head(e)
    ELSE DigitsAtLeast(Tail(d), Tail(e))

\* strconv.ParseFloat(s, 64) of a number literal: int and frac are its
\* digits before and after the point, exp the digits of its exponent.  A
\* magnitude beyond float64 is the error ErrRange; one below the smallest
\* denormal is a zero.
ParseFloat(neg, int, frac, expNeg, exp) ==
    LET all == [i \in DOMAIN (int \o frac) |-> (int \o frac)[i] - Zero]
        lead == StripLeadingZeros(all)
        digs == StripTrailingZeros(lead)
        e == ExponentValue([i \in DOMAIN exp |-> exp[i] - Zero], 0)
        x == (Len(int) - 1) - (Len(all) - Len(lead)) + (IF expNeg THEN -e ELSE e)
    IN IF digs = << >> THEN [v |-> NumTree(neg, << >>, 0), range |-> FALSE]
       ELSE IF x > 308 \/ (x = 308 /\ DigitsAtLeast(digs, MaxFloatDigits))
       THEN [v |-> NullTree, range |-> TRUE]
       ELSE IF x < -323 THEN [v |-> NumTree(neg, << >>, 0), range |-> FALSE]
       ELSE [v |-> NumTree(neg, digs, x), range |-> FALSE]

\* scanner.go state0, state1: the index after the integer part that starts
\* at s[a], a itself if there is none.  A leading 0 stands alone.
IntEnd(s, a) ==
    IF a <= Len(s) /\ s[a] = Zero THEN a + 1 ELSE DigitsEnd(s, a)

HasFrac(s, b) == b <= Len(s) /\ s[b] = Dot

\* scanner.go stateDot, stateDot0: the index after the fraction at s[b].
FracEnd(s, b) == IF HasFrac(s, b) THEN DigitsEnd(s, b + 1) ELSE b

HasExp(s, c) == c <= Len(s) /\ s[c] \in {LowerE, UpperE}

HasExpSign(s, c) == c + 1 <= Len(s) /\ s[c + 1] \in {Plus, Minus}

\* scanner.go stateE, stateESign: the index of the first exponent digit.
ExpStart(s, c) ==
    IF ~HasExp(s, c) THEN c ELSE IF HasExpSign(s, c) THEN c + 2 ELSE c + 1

\* scanner.go stateE0: the index after the exponent at s[c].
ExpEnd(s, c) == IF HasExp(s, c) THEN DigitsEnd(s, ExpStart(s, c)) ELSE c

\* The number whose integer part is s[a..b-1], whose fraction ends before c
\* and whose exponent ends before f, converted by convertNumber.  A part
\* that is announced and has no digit is a syntax error; rng tells that
\* the conversion failed.
numberParts(s, neg, a, b, c, f) ==
    IF b = a \/ (HasFrac(s, b) /\ c = b + 1) \/ (HasExp(s, c) /\ f = ExpStart(s, c))
    THEN Fail
    ELSE [ok |-> TRUE, i |-> f,
          n |-> ParseFloat(neg, SubSeq(s, a, b - 1),
                           IF HasFrac(s, b) THEN SubSeq(s, b + 1, c - 1) ELSE << >>,
                           HasExp(s, c) /\ HasExpSign(s, c) /\ s[c + 1] = Minus,
                           SubSeq(s, ExpStart(s, c), f - 1))]

numberFrac(s, neg, a, b, c) == numberParts(s, neg, a, b, c, ExpEnd(s, c))

numberInt(s, neg, a, b) == numberFrac(s, neg, a, b, FracEnd(s, b))

\* The number literal that starts at s[i] (scanner.go stateNeg).
number(s, i) ==
    IF s[i] = Minus
    THEN numberInt(s, TRUE, i + 1, IntEnd(s, i + 1))
    ELSE numberInt(s, FALSE, i, IntEnd(s, i))

\* ------------------------------------------------------------------------
\* encoding/json: Unmarshal
\* ------------------------------------------------------------------------

\* The literal lit at s[i] (scanner.go stateT .. stateNul).
literal(s, i, lit, v) ==
    IF i + Len(lit) - 1 <= Len(s) /\ SubSeq(s, i, i + Len(lit) - 1) = lit
    THEN [ok |-> TRUE, v |-> v, i |-> i + Len(lit), rng |-> FALSE]
    ELSE Fail

\* The parse result of a number literal.
numberValue(r) ==
    IF r.ok THEN [ok |-> TRUE, v |-> r.n.v, i |-> r.i, rng |-> r.n.range] ELSE Fail

\* The parse result of a string literal.
stringValue(r) ==
    IF r.ok THEN [ok |-> TRUE, v |-> StrTree(r.v), i |-> r.i, rng |-> FALSE] ELSE Fail

RECURSIVE value(_, _), array(_, _, _, _), arrayElement(_, _, _, _)
RECURSIVE object(_, _, _, _), objectKey(_, _, _, _), objectMember(_, _, _, _, _)

\* The JSON value that starts at s[i] (decode.go valueInterface): its tree,
\* the index after it, and whether a number of it was out of range.
value(s, i) ==
    IF i > Len(s) THEN Fail
    ELSE CASE s[i] = LBrace -> object(s, SkipSpace(s, i + 1), << >>, FALSE)
           [] s[i] = LBracket -> array(s, SkipSpace(s, i + 1), << >>, FALSE)
           [] s[i] = DQuote -> stringValue(unquote(s, i + 1, << >>))
           [] s[i] = Minus \/ IsDigit(s[i]) -> numberValue(number(s, i))
           [] s[i] = LowerT -> literal(s, i, TrueText, BoolTree(TRUE))
           [] s[i] = LowerF -> literal(s, i, FalseText, BoolTree(FALSE))
           [] s[i] = LowerN -> literal(s, i, NullText, NullTree)
           [] OTHER -> Fail

\* The array whose opening bracket and white space end before s[i]
\* (decode.go arrayInterface): the closing bracket if no element was read
\* yet, or an element.
array(s, i, acc, rng) ==
    IF acc = << >> /\ i <= Len(s) /\ s[i] = RBracket
    THEN [ok |-> TRUE, v |-> ArrTree(<< >>), i |-> i + 1, rng |-> FALSE]
    ELSE arrayElement(s, value(s, i), acc, rng)

\* After the element r: a comma and the next element, or the closing
\* bracket.
arrayElement(s, r, acc, rng) ==
    IF ~r.ok THEN Fail
    ELSE LET j == SkipSpace(s, r.i) IN
         IF j > Len(s) THEN Fail
         ELSE IF s[j] = Comma
         THEN array(s, SkipSpace(s, j + 1), Append(acc, r.v), rng \/ r.rng)
         ELSE IF s[j] = RBracket
         THEN [ok |-> TRUE, v |-> ArrTree(Append(acc, r.v)), i |-> j + 1,
               rng |-> rng \/ r.rng]
         ELSE Fail

\* The object whose opening brace and white space end before s[i]
\* (decode.go objectInterface): the closing brace if no member was read
\* yet, or a member, which starts with its key string.
object(s, i, acc, rng) ==
    IF i > Len(s) THEN Fail
    ELSE IF DOMAIN acc = {} /\ s[i] = RBrace
    THEN [ok |-> TRUE, v |-> ObjTree(<< >>), i |-> i + 1, rng |-> FALSE]
    ELSE IF s[i] # DQuote THEN Fail
    ELSE objectKey(s, unquote(s, i + 1, << >>), acc, rng)

\* After the key k: a colon and the value of the member.
objectKey(s, k, acc, rng) ==
    IF ~k.ok THEN Fail
    ELSE LET j == SkipSpace(s, k.i) IN
         IF j > Len(s) \/ s[j] # Colon THEN Fail
         ELSE objectMember(s, k.v, value(s, SkipSpace(s, j + 1)), acc, rng)

\* After the member key: r, which is stored in the map (a repeated key
\* overwrites its entry): a comma and the next member, or the closing
\* brace.
objectMember(s, key, r, acc, rng) ==
    IF ~r.ok THEN Fail
    ELSE LET n == SkipSpace(s, r.i)
             m == [q \in DOMAIN acc \cup {key} |-> IF q = key THEN r.v ELSE acc[q]]
         IN IF n > Len(s) THEN Fail
            ELSE IF s[n] = Comma
            THEN object(s, SkipSpace(s, n + 1), m, rng \/ r.rng)
            ELSE IF s[n] = RBrace
            THEN [ok |-> TRUE, v |-> ObjTree(m), i |-> n + 1, rng |-> rng \/ r.rng]
            ELSE Fail

\* What Unmarshal returns for the scan result r of data.  checkValid scans
\* the whole input first, so a syntax error wins over a number out of
\* range, which is an UnmarshalTypeError.
unmarshalResult(data, r) ==
    IF ~r.ok THEN [x |-> NullTree, err |-> "SyntaxError"]
    ELSE IF SkipSpace(data, r.i) <= Len(data)
    THEN [x |-> NullTree, err |-> "SyntaxError"]
    ELSE IF r.rng THEN [x |-> NullTree, err |-> "UnmarshalTypeError"]
    ELSE [x |-> r.v, err |-> Nil]

\* json.Unmarshal(data, &x) for x of type any.
Unmarshal(data) == unmarshalResult(data, value(data, SkipSpace(data, 1)))

\* ------------------------------------------------------------------------
\* encoding/json: Marshal
\* ------------------------------------------------------------------------

RECURSIVE NatDigits(_)
\* The decimal digits of a natural number.
NatDigits(n) == IF n < 10 THEN << n >> ELSE Append(NatDigits(n \div 10), n % 10)

DigitChars(d) == [i \in DOMAIN d |-> Zero + d[i]]

Zeros(n) == [i \in 1..n |-> Zero]

\* strconv.AppendFloat(b, f, 'e', -1, 64): d.ddde+xx, the exponent with at
\* least two digits.
FormatE(digs, x) ==
    LET ax == IF x < 0 THEN -x ELSE x IN
    << Zero + digs[1] >>
    \o (IF Len(digs) > 1 THEN << Dot >> \o DigitChars(Tail(digs)) ELSE << >>)
    \o << LowerE, IF x < 0 THEN Minus ELSE Plus >>
    \o (IF ax < 10 THEN << Zero >> ELSE << >>)
    \o DigitChars(NatDigits(ax))

\* strconv.AppendFloat(b, f, 'f', -1, 64).
FormatF(digs, x) ==
    LET d == Len(digs) IN
    IF x < 0 THEN << Zero, Dot >> \o Zeros(-x - 1) \o DigitChars(digs)
    ELSE IF d <= x + 1 THEN DigitChars(digs) \o Zeros(x + 1 - d)
    ELSE DigitChars(SubSeq(digs, 1, x + 1)) \o << Dot >>
         \o DigitChars(SubSeq(digs, x + 2, d))

\* encode.go floatEncoder "clean up e-09 to e-9".
CleanExponent(b) ==
    LET n == Len(b) IN
    IF n >= 4 /\ b[n - 3] = LowerE /\ b[n - 2] = Minus /\ b[n - 1] = Zero
    THEN SubSeq(b, 1, n - 2) \o << b[n] >>
    ELSE b

\* encode.go floatEncoder: format 'e' when abs < 1e-6 or abs >= 1e21, else
\* 'f'; the shortest digits that read back as the same float64.
FormatFloat(v) ==
    (IF v.neg THEN << Minus >> ELSE << >>)
    \o (IF v.digs = << >> THEN << Zero >>
        ELSE IF v.x < -6 \/ v.x >= 21 THEN CleanExponent(FormatE(v.digs, v.x))
        ELSE FormatF(v.digs, v.x))

\* One digit of "0123456789abcdef".
HexDigit(n) == IF n < 10 THEN Zero + n ELSE LowerA + (n - 10)

\* tables.go htmlSafeSet, for a byte below utf8.RuneSelf: every character
\* from U+0020 on except " & < > and \ (U+007F is in the set).
htmlSafeSet(c) ==
    c >= 32 /\ c \notin {DQuote, BSlash, LessThan, GreaterThan, Ampersand}

\* encode.go appendString with escapeHTML set, for one unit of the string.
appendUnit(c) ==
    IF IsInvalidByte(c)
    THEN << BSlash, LowerU, LowerF, LowerF, LowerF, HexDigit(13) >>
    ELSE IF c < 128 THEN
        IF htmlSafeSet(c) THEN << c >>
        ELSE CASE c = BSlash \/ c = DQuote -> << BSlash, c >>
               [] c = 8 -> << BSlash, LowerB >>
               [] c = 12 -> << BSlash, LowerF >>
               [] c = 10 -> << BSlash, LowerN >>
               [] c = 13 -> << BSlash, LowerR >>
               [] c = 9 -> << BSlash, LowerT >>
               [] OTHER -> << BSlash, LowerU, Zero, Zero,
                              HexDigit(c \div 16), HexDigit(c % 16) >>
    ELSE IF c = 8232 \/ c = 8233
    THEN << BSlash, LowerU, Zero + 2, Zero, Zero + 2, HexDigit(c % 16) >>
    ELSE << c >>

\* encode.go appendString: the quoted, escaped string.
appendString(s) ==
    << DQuote >> \o Flatten([i \in DOMAIN s |-> appendUnit(s[i])]) \o << DQuote >>

RECURSIVE LexLess(_, _)
\* strings.Compare(a, b) < 0: UTF-8 byte order is code point order.
LexLess(a, b) ==
    IF b = << >> THEN FALSE
    ELSE IF a = << >> THEN TRUE
    ELSE IF Head(a) # Head(b) THEN Head(a) < Head(b)
    ELSE LexLess(Tail(a), Tail(b))

RECURSIVE SortedKeys(_)
\* encode.go mapEncoder: the keys of the map in sorted order.
SortedKeys(S) ==
    IF S = {} THEN << >>
    ELSE LET m == CHOOSE k \in S : \A o \in S : o = k \/ LexLess(k, o)
         IN << m >> \o SortedKeys(S \ {m})

RECURSIVE JoinComma(_)
JoinComma(parts) ==
    IF parts = << >> THEN << >>
    ELSE IF Len(parts) = 1 THEN parts[1]
    ELSE parts[1] \o << Comma >> \o JoinComma(Tail(parts))

RECURSIVE encode(_)
\* encode.go reflectValue on the dynamic type of an `any`.
encode(v) ==
    CASE v.t = "null" -> NullText
      [] v.t = "bool" -> IF v.b THEN TrueText ELSE FalseText
      [] v.t = "num" -> FormatFloat(v)
      [] v.t = "str" -> appendString(v.s)
      [] v.t = "arr" ->
             << LBracket >> \o JoinComma([i \in DOMAIN v.a |-> encode(v.a[i])])
             \o << RBracket >>
      [] v.t = "obj" ->
             LET ks == SortedKeys(DOMAIN v.o) IN
             << LBrace >>
             \o JoinComma([i \in DOMAIN ks |->
                              appendString(ks[i]) \o << Colon >> \o encode(v.o[ks[i]])])
             \o << RBrace >>

RECURSIVE Supported(_)
\* The values Marshal encodes: what it refuses (a channel, a function, a
\* float64 that is NaN or an infinity) is no tree of this model.
Supported(v) ==
    CASE v.t \in {"null", "bool", "num", "str"} -> TRUE
      [] v.t = "arr" -> \A i \in DOMAIN v.a : Supported(v.a[i])
      [] v.t = "obj" -> \A k \in DOMAIN v.o : Supported(v.o[k])
      [] OTHER -> FALSE

\* json.Marshal(x): the encoding or an error, never both.
Marshal(x) ==
    IF Supported(x) THEN [j |-> encode(x), err |-> Nil]
    ELSE [j |-> << >>, err |-> "UnsupportedValueError"]

\* ------------------------------------------------------------------------
\* package safehtml: coerceToUTF8InterchangeValid
\* ------------------------------------------------------------------------

\* The code points that are not legal in interchange: the C0 controls other
\* than HT, LF, FF and CR, U+007F and the C1 controls, and the Unicode
\* noncharacters (U+FDD0 .. U+FDEF and the last two of every plane).
controlAndNonCharacter(c) ==
    \/ c >= 0 /\ c <= 8
    \/ c = 11
    \/ c >= 14 /\ c <= 31
    \/ c >= 127 /\ c <= 159
    \/ c >= 64976 /\ c <= 65007
    \/ c >= 0 /\ c % 65536 >= 65534

\* Every byte of an invalid encoding (an encoded surrogate included) and
\* every code point not legal in interchange becomes U+FFFD; the rest of
\* the text is kept.
coerceToUTF8InterchangeValid(s) ==
    [i \in DOMAIN s |->
        IF IsInvalidByte(s[i]) \/ controlAndNonCharacter(s[i])
        THEN RuneError
        ELSE s[i]]

\* ------------------------------------------------------------------------
\* package safehtml: type JSON and its functions (json.go)
\* ------------------------------------------------------------------------

\* The zero value of struct JSON.
ZeroJSON == [str |-> << >>]

\* String returns the string form of the JSON.
String(h) == h.str

\* A slip: the constant is coerced like the text of JSONEscaped.
JSONFromConstant_coerced(str) == [str |-> coerceToUTF8InterchangeValid(str)]

JSONFromConstant(str) == [str |-> str]

\* A slip: the assignment of line 45 is missing.
afterMarshal_unassigned(m) == [out |-> ZeroJSON, err |-> m.err]

\* Lines 41-47: Marshal has returned m.  On an error out is still the
\* zero value.
afterMarshal(m) ==
    IF m.err # Nil THEN [out |-> ZeroJSON, err |-> m.err]
    ELSE [out |-> [str |-> m.j], err |-> Nil]

\* A slip: the error of Unmarshal is not checked.
afterUnmarshal_unchecked(u) == afterMarshal(Marshal(u.x))

\* A slip: out is assigned before the error is looked at.
afterUnmarshal_partial(u) ==
    IF u.err # Nil THEN [out |-> [str |-> encode(u.x)], err |-> u.err]
    ELSE afterMarshal(Marshal(u.x))

\* Lines 37-40: Unmarshal has returned u.  On an error `goto end` returns
\* the named results as they stand.
afterUnmarshal(u) ==
    IF u.err # Nil THEN [out |-> ZeroJSON, err |-> u.err]
    ELSE afterMarshal(Marshal(u.x))

\* A slip: the input is validated and then wrapped as it came.
JSONFromValue_unsanitized(input) ==
    IF Unmarshal(input).err # Nil
    THEN [out |-> ZeroJSON, err |-> Unmarshal(input).err]
    ELSE [out |-> [str |-> input], err |-> Nil]

JSONFromValue(input) == afterUnmarshal(Unmarshal(input))

\* A slip: the text is wrapped without the coercion.
JSONEscaped_raw(text) == [str |-> text]

JSONEscaped(text) == [str |-> coerceToUTF8InterchangeValid(text)]

EmptyObjectJSON == [str |-> << LBrace, RBrace >>]

\* A slip: the literal of EmptyObjectJSON, copied.
EmptyArrayJSON_object == [str |-> << LBrace, RBrace >>]

EmptyArrayJSON == [str |-> << LBracket, RBracket >>]

RECURSIVE WriteStrings(_, _)
\* The loop of JSONConcat: b.WriteString(json.String()) for each argument.
WriteStrings(jsons, b) ==
    IF jsons = << >> THEN b
    ELSE WriteStrings(Tail(jsons), b \o String(Head(jsons)))

RECURSIVE WriteSeparated(_, _)
WriteSeparated(jsons, b) ==
    IF jsons = << >> THEN b
    ELSE WriteSeparated(Tail(jsons),
                        (IF b = << >> THEN b ELSE b \o << Comma >>) \o String(Head(jsons)))

\* A slip: a separator is written between the arguments.
JSONConcat_separated(jsons) == [str |-> WriteSeparated(jsons, << >>)]

JSONConcat(jsons) == [str |-> WriteStrings(jsons, << >>)]

\* ------------------------------------------------------------------------
\* Callers: the texts they pass and the values they hold
\* ------------------------------------------------------------------------

\* Bounds of the model.
MaxLen == 4
MaxHeld == 2
MaxArgs == 2

\* The units of the exhaustively enumerated texts: " [ ] , 1 < \ U+007F and
\* the invalid byte 0xFF.
Alphabet ==
    {DQuote, LBracket, RBracket, Comma, Zero + 1, LessThan, BSlash, 127, -255}

\* Every text of at most MaxLen units of Alphabet.
BoundedTexts == UNION {[1..n -> Alphabet] : n \in 0..MaxLen}

\* Longer texts: documents, malformed inputs and numbers at the limits.
ObjectText ==
    Text(<< "{", "\"", "a", "\"", ":", " ", "1", ",", " ", "\"", "b", "\"", ":",
            " ", "[", "t", "r", "u", "e", ",", " ", "n", "u", "l", "l", "]", "}" >>)
NotJSONText == Text(<< "n", "o", "t", " ", "j", "s", "o", "n" >>)
InvalidText == Text(<< "{", "i", "n", "v", "a", "l", "i", "d" >>)
TrailingCommaText == Text(<< "{", "\"", "a", "\"", ":", "1", ",", "}" >>)
UnterminatedText == Text(<< "\"", "a", "b", "c" >>)
HugeNumberText == Text(<< "1", "e", "4", "0", "0" >>)
NestedHugeText == Text(<< "[", "-", "2", ".", "5", "E", "+", "3", "0", "9", "]" >>)
ScriptText ==
    Text(<< "\"", "<", "/", "s", "c", "r", "i", "p", "t", ">", "&", "'", "\"" >>)
ScriptKeyText ==
    Text(<< "{", "\"", "<", "&", ">", "\"", ":", "f", "a", "l", "s", "e", "}" >>)
DuplicateKeyText ==
    Text(<< "{", "\"", "b", "\"", ":", "1", ",", "\"", "a", "\"", ":", "2", ",",
            "\"", "b", "\"", ":", "3", "}" >>)
NoncharacterText == Text(<< "\"", "\\", "u", "f", "f", "f", "f", "\"" >>)
LoneSurrogateText == Text(<< "\"", "\\", "u", "d", "8", "0", "0", "\"" >>)
EscapesText ==
    Text(<< "\"", "\\", "n", "\\", "u", "0", "0", "3", "C", "\\", "/", "\\", "\"",
            "\\", "u", "2", "0", "2", "8", "\"" >>)
BadEscapeText == Text(<< "\"", "\\", "'", "\"" >>)
SmallNumberText == Text(<< "1", ".", "5", "0", "e", "-", "7" >>)
FractionText == Text(<< "[", "-", "0", ",", "0", ".", "0", "1", "5", ",", "1",
                         "2", "0", "0", "]" >>)
LargeNumberText == Text(<< "1", "2", "3", "4", ".", "5", "6", "E", "2", "0" >>)
UnderflowText == Text(<< "1", "e", "-", "9", "9", "9" >>)
LeadingZeroText == Text(<< "0", "1" >>)
SpacedText == << Space, LBracket, 10, RBracket, 9 >>
\* "a", an encoded surrogate (ED A0 80), U+0001, U+FFFE and U+00E9.
SurrogateBytesText == << LowerA, -237, -160, -128, 1, 65534, 233 >>

ScenarioTexts ==
    { ObjectText, NotJSONText, InvalidText, TrailingCommaText, UnterminatedText,
      HugeNumberText, NestedHugeText, ScriptText, ScriptKeyText,
      DuplicateKeyText, NoncharacterText, LoneSurrogateText, EscapesText,
      BadEscapeText, SmallNumberText, FractionText, LargeNumberText,
      UnderflowText, LeadingZeroText, SpacedText, SurrogateBytesText }

\* The texts a single call is applied to.
Texts == BoundedTexts \cup ScenarioTexts

\* The texts a caller that keeps its results passes: a string with a
\* character of markup, a string with an escaped noncharacter, a number out
\* of range, and a byte that is no UTF-8.
CallerTexts ==
    { << DQuote, LessThan, DQuote >>, NoncharacterText, HugeNumberText, << -255 >> }

\* The compile-time constants of a caller.
ConstantTexts == { << LBrace >>, << 127, -255 >> }

\* ------------------------------------------------------------------------
\* State
\* ------------------------------------------------------------------------

VARIABLES
    op,     \* the function called last, "init" before any call
    arg,    \* the text passed to it (<< >> if it takes none)
    args,   \* the JSON values passed to JSONConcat (<< >> otherwise)
    out,    \* the JSON value returned
    err,    \* the error returned, Nil if none
    prov,   \* the constructors out descends from
    held    \* the values the caller keeps, each with the constructors it
            \* descends from

vars == << op, arg, args, out, err, prov, held >>

\* The caller keeps a returned value while it has room for one.
Keep(j, p) ==
    IF Len(held) < MaxHeld THEN Append(held, [json |-> j, prov |-> p]) ELSE held

CallJSONFromConstant(c) ==
    /\ op' = "JSONFromConstant"
    /\ arg' = c
    /\ args' = << >>
    /\ out' = JSONFromConstant(c)
    /\ err' = Nil
    /\ prov' = {"JSONFromConstant"}
    /\ held' = Keep(out', prov')

\* The caller receives the two results of JSONFromValue.
Returns(r) == out' = r.out /\ err' = r.err

\* The caller checks the error before it uses the result.
CallJSONFromValue(t) ==
    /\ op' = "JSONFromValue"
    /\ arg' = t
    /\ args' = << >>
    /\ Returns(JSONFromValue(t))
    /\ prov' = {"JSONFromValue"}
    /\ held' = IF err' = Nil THEN Keep(out', prov') ELSE held

CallJSONEscaped(t) ==
    /\ op' = "JSONEscaped"
    /\ arg' = t
    /\ args' = << >>
    /\ out' = JSONEscaped(t)
    /\ err' = Nil
    /\ prov' = {"JSONEscaped"}
    /\ held' = Keep(out', prov')

CallEmptyObjectJSON ==
    /\ op' = "EmptyObjectJSON"
    /\ arg' = << >>
    /\ args' = << >>
    /\ out' = EmptyObjectJSON
    /\ err' = Nil
    /\ prov' = {"EmptyObjectJSON"}
    /\ held' = Keep(out', prov')

CallEmptyArrayJSON ==
    /\ op' = "EmptyArrayJSON"
    /\ arg' = << >>
    /\ args' = << >>
    /\ out' = EmptyArrayJSON
    /\ err' = Nil
    /\ prov' = {"EmptyArrayJSON"}
    /\ held' = Keep(out', prov')

\* JSONConcat of the held values at the indices ix, in that order.
CallJSONConcat(ix) ==
    /\ op' = "JSONConcat"
    /\ arg' = << >>
    /\ args' = [i \in DOMAIN ix |-> held[ix[i]].json]
    /\ out' = JSONConcat(args')
    /\ err' = Nil
    /\ prov' = UNION {held[ix[i]].prov : i \in DOMAIN ix}
    /\ held' = Keep(out', prov')

\* A caller that builds values out of the values it holds.
Init ==
    /\ op = "init"
    /\ arg = << >>
    /\ args = << >>
    /\ out = ZeroJSON
    /\ err = Nil
    /\ prov = {}
    /\ held = << >>

FromConstant == \E c \in ConstantTexts : CallJSONFromConstant(c)
FromValue == \E t \in CallerTexts : CallJSONFromValue(t)
Escaped == \E t \in CallerTexts : CallJSONEscaped(t)
EmptyObject == CallEmptyObjectJSON
EmptyArray == CallEmptyArrayJSON
Concat ==
    \E n \in 0..MaxArgs : \E ix \in [1..n -> DOMAIN held] : CallJSONConcat(ix)

Next ==
    \/ FromConstant
    \/ FromValue
    \/ Escaped
    \/ EmptyObject
    \/ EmptyArray
    \/ Concat

Spec == Init /\ [][Next]_vars

\* One call of a constructor on each text of Texts.
InitText ==
    /\ op = "init"
    /\ arg \in Texts
    /\ args = << >>
    /\ out = ZeroJSON
    /\ err = Nil
    /\ prov = {}
    /\ held = << >>

TextFromValue == op = "init" /\ CallJSONFromValue(arg)
TextEscaped == op = "init" /\ CallJSONEscaped(arg)
TextFromConstant == op = "init" /\ CallJSONFromConstant(arg)

NextText ==
    \/ TextFromValue
    \/ TextEscaped
    \/ TextFromConstant

SpecText == InitText /\ [][NextText]_vars

\* ------------------------------------------------------------------------
\* The JSON grammar of RFC 8259, by which the properties judge a text
\* ------------------------------------------------------------------------
\* Every production maps a set I of start indices of s to the set of the
\* indices that follow a match.  The grammar constrains ASCII only: a byte
\* of an invalid encoding counts as a character above U+007F.

GLit(s, I, c) == {i + 1 : i \in {k \in I : k <= Len(s) /\ s[k] = c}}

GAny(s, I, C) == {i + 1 : i \in {k \in I : k <= Len(s) /\ s[k] \in C}}

GWord(s, I, w) ==
    {i + Len(w) : i \in {k \in I : /\ k + Len(w) - 1 <= Len(s)
                                   /\ SubSeq(s, k, k + Len(w) - 1) = w}}

RECURSIVE GWs(_, _)
\* ws = *( %x20 / %x09 / %x0A / %x0D )
GWs(s, I) ==
    LET J == I \cup GAny(s, I, {32, 9, 10, 13}) IN IF J = I THEN I ELSE GWs(s, J)

\* ws c ws, for a structural character c
GStruct(s, I, c) == GWs(s, GLit(s, GWs(s, I), c))

RECURSIVE GDigitStar(_, _)
\* *DIGIT
GDigitStar(s, I) ==
    LET J == I \cup GAny(s, I, Zero..Nine) IN IF J = I THEN I ELSE GDigitStar(s, J)

\* int = zero / ( digit1-9 *DIGIT )
GInt(s, I) == GLit(s, I, Zero) \cup GDigitStar(s, GAny(s, I, (Zero + 1)..Nine))

\* frac = decimal-point 1*DIGIT
GFrac(s, I) == GDigitStar(s, GAny(s, GLit(s, I, Dot), Zero..Nine))

\* exp = e [ minus / plus ] 1*DIGIT
GExp(s, I) ==
    LET e == GAny(s, I, {LowerE, UpperE}) IN
    GDigitStar(s, GAny(s, e \cup GAny(s, e, {Minus, Plus}), Zero..Nine))

\* number = [ minus ] int [ frac ] [ exp ]
GNumber(s, I) ==
    LET n == GInt(s, I \cup GLit(s, I, Minus))
        f == n \cup GFrac(s, n)
    IN f \cup GExp(s, f)

GHexDigits == (Zero..Nine) \cup (LowerA..LowerF) \cup (UpperA..UpperF)

\* char = unescaped / escape ( " \ / b f n r t / uXXXX )
GChar(s, I) ==
    LET e == GLit(s, I, BSlash) IN
    {i + 1 : i \in {k \in I : /\ k <= Len(s)
                              /\ s[k] \notin {DQuote, BSlash}
                              /\ (s[k] < 0 \/ s[k] >= 32)}}
    \cup GAny(s, e, {DQuote, BSlash, Slash, LowerB, LowerF, LowerN, LowerR, LowerT})
    \cup GAny(s, GAny(s, GAny(s, GAny(s, GLit(s, e, LowerU), GHexDigits),
                              GHexDigits), GHexDigits), GHexDigits)

RECURSIVE GCharStar(_, _)
GCharStar(s, I) ==
    LET J == I \cup GChar(s, I) IN IF J = I THEN I ELSE GCharStar(s, J)

\* string = quotation-mark *char quotation-mark
GString(s, I) == GLit(s, GCharStar(s, GLit(s, I, DQuote)), DQuote)

RECURSIVE GValue(_, _), GValues(_, _), GArray(_, _)
RECURSIVE GMember(_, _), GMembers(_, _), GObject(_, _)

\* value = false / null / true / object / array / number / string
GValue(s, I) ==
    IF I = {} THEN {}
    ELSE GWord(s, I, FalseText) \cup GWord(s, I, NullText) \cup GWord(s, I, TrueText)
         \cup GObject(s, I) \cup GArray(s, I) \cup GNumber(s, I) \cup GString(s, I)

\* *( value-separator value ), after a first value that ends at I
GValues(s, I) ==
    IF I = {} THEN {} ELSE I \cup GValues(s, GValue(s, GStruct(s, I, Comma)))

\* array = begin-array [ value *( value-separator value ) ] end-array
GArray(s, I) ==
    LET b == GStruct(s, I, LBracket) IN
    GStruct(s, b \cup GValues(s, GValue(s, b)), RBracket)

\* member = string name-separator value
GMember(s, I) == GValue(s, GStruct(s, GString(s, I), Colon))

GMembers(s, I) ==
    IF I = {} THEN {} ELSE I \cup GMembers(s, GMember(s, GStruct(s, I, Comma)))

\* object = begin-object [ member *( value-separator member ) ] end-object
GObject(s, I) ==
    LET b == GStruct(s, I, LBrace) IN
    GStruct(s, b \cup GMembers(s, GMember(s, b)), RBrace)

\* JSON-text = ws value ws
IsJSONText(s) == Len(s) + 1 \in GWs(s, GValue(s, GWs(s, {1})))

\* ------------------------------------------------------------------------
\* Notions the properties use
\* ------------------------------------------------------------------------

\* The characters of a number literal.
NumberChars == (Zero..Nine) \cup {Minus, Plus, Dot, LowerE, UpperE}

RECURSIVE RunEnd(_, _)
RunEnd(s, i) == IF i <= Len(s) /\ s[i] \in NumberChars THEN RunEnd(s, i + 1) ELSE i

RECURSIVE NumberRuns(_, _, _)
\* The maximal runs of number characters of s outside its string literals,
\* from index i on.  In a JSON text the runs that hold a digit are its
\* number literals (the e of true and false is a run without one).
NumberRuns(s, i, inString) ==
    IF i > Len(s) THEN {}
    ELSE IF inString THEN
        IF s[i] = BSlash THEN NumberRuns(s, i + 2, TRUE)
        ELSE NumberRuns(s, i + 1, s[i] # DQuote)
    ELSE IF s[i] = DQuote THEN NumberRuns(s, i + 1, TRUE)
    ELSE IF s[i] \in NumberChars
    THEN {SubSeq(s, i, RunEnd(s, i) - 1)} \cup NumberRuns(s, RunEnd(s, i), FALSE)
    ELSE NumberRuns(s, i + 1, FALSE)

\* The first index of w that holds a unit of C, Len(w) + 1 if none does.
IndexOf(w, C) ==
    IF \E i \in DOMAIN w : w[i] \in C
    THEN CHOOSE i \in DOMAIN w : w[i] \in C /\ \A k \in 1..(i - 1) : w[k] \notin C
    ELSE Len(w) + 1

\* A number literal whose magnitude no float64 holds.
OutOfRange(w) ==
    LET body == IF w[1] = Minus THEN Tail(w) ELSE w
        e == IndexOf(body, {LowerE, UpperE})
        mant == SubSeq(body, 1, e - 1)
        dot == IndexOf(mant, {Dot})
        ex == SubSeq(body, e + 1, Len(body))
        signed == ex # << >> /\ ex[1] \in {Minus, Plus}
    IN ParseFloat(w[1] = Minus, SubSeq(mant, 1, dot - 1),
                  SubSeq(mant, dot + 1, Len(mant)),
                  signed /\ ex[1] = Minus,
                  IF signed THEN Tail(ex) ELSE ex).range

HasNumberOutOfRange(s) ==
    \E w \in NumberRuns(s, 1, FALSE) :
        (\E i \in DOMAIN w : w[i] \in Zero..Nine) /\ OutOfRange(w)

\* Valid UTF-8 without a character that is illegal in interchange: no byte
\* of an invalid encoding, no surrogate, no control character other than
\* HT, LF, FF and CR, no noncharacter.
InterchangeValid(s) ==
    \A i \in DOMAIN s :
        /\ s[i] >= 0
        /\ s[i] \notin (0..31) \ {9, 10, 12, 13}
        /\ s[i] \notin 127..159
        /\ s[i] \notin 55296..57343
        /\ s[i] \notin 64976..65007
        /\ s[i] % 65536 \notin {65534, 65535}

\* The characters the comment of JSONEscaped says it escapes.
EscapedChars == {Ampersand, LessThan, GreaterThan, DQuote, Apostrophe}

RECURSIVE Joined(_)
\* The strings of the given JSON values, one after the other.
Joined(js) == IF js = << >> THEN << >> ELSE Head(js).str \o Joined(Tail(js))

\* Reading the text t again gives the tree that reading the text s gave.
SameTree(t, s) ==
    /\ Unmarshal(t).err = Nil
    /\ Unmarshal(s).err = Nil
    /\ Unmarshal(t).x = Unmarshal(s).x

\* The values at hand: the one returned last and the ones the caller holds.
Values ==
    {[json |-> out, prov |-> prov]} \cup {held[i] : i \in DOMAIN held}

\* ------------------------------------------------------------------------
\* Properties
\* ------------------------------------------------------------------------

\* C1: JSONFromValue of a text that is not syntactically valid JSON returns
\* a non-nil error together with the zero JSON value, whose String() is the
\* empty string.
C1_Rejection ==
    (op = "JSONFromValue" /\ ~IsJSONText(arg))
        => (err # Nil /\ out = ZeroJSON /\ String(out) = << >>)

\* "not json" was rejected.
C1_Witness ==
    /\ op = "JSONFromValue"
    /\ arg = NotJSONText
    /\ ~IsJSONText(arg)
    /\ err = "SyntaxError"
    /\ out = ZeroJSON

\* C2 as stated: JSONFromValue of every syntactically valid JSON text
\* succeeds, and its String() reads back as the tree the text reads as.
C2_EveryValidTextSucceeds ==
    (op = "JSONFromValue" /\ IsJSONText(arg))
        => (err = Nil /\ SameTree(String(out), arg))

\* C2: JSONFromValue of a syntactically valid JSON text succeeds, and its
\* String() reads back as the tree the text reads as, unless the text holds
\* a number literal outside the range of float64; it then returns an
\* UnmarshalTypeError together with the zero JSON value.
C2_RoundTrip ==
    (op = "JSONFromValue" /\ IsJSONText(arg))
        => IF HasNumberOutOfRange(arg)
           THEN err = "UnmarshalTypeError" /\ out = ZeroJSON
           ELSE err = Nil /\ SameTree(String(out), arg)

\* The sample object text was read and written in canonical form.
C2_Witness ==
    /\ op = "JSONFromValue"
    /\ arg = ObjectText
    /\ err = Nil
    /\ String(out) = Text(<< "{", "\"", "a", "\"", ":", "1", ",", "\"", "b", "\"",
                             ":", "[", "t", "r", "u", "e", ",", "n", "u", "l", "l",
                             "]", "}" >>)
    /\ SameTree(String(out), arg)

\* C3: the String() of JSONConcat(v1, ..., vn) is the strings of v1 .. vn
\* one after the other, in the order of the arguments and with nothing
\* between them; it is empty for no argument, and "{}[]" for the empty
\* object followed by the empty array.
C3_Concat ==
    op = "JSONConcat"
        => /\ String(out) = Joined(args)
           /\ args = << >> => String(out) = << >>
           /\ args = << EmptyObjectJSON, EmptyArrayJSON >>
                  => String(out) = Text(<< "{", "}", "[", "]" >>)

\* The empty object and the empty array were concatenated.
C3_Witness ==
    /\ op = "JSONConcat"
    /\ args = << [str |-> Text(<< "{", "}" >>)], [str |-> Text(<< "[", "]" >>)] >>
    /\ String(out) = Text(<< "{", "}", "[", "]" >>)

\* C4: the String() of JSONEscaped(text) holds none of the characters
\* & < > " ' in raw form.
C4_Escapes ==
    op = "JSONEscaped"
        => \A i \in DOMAIN String(out) : String(out)[i] \notin EscapedChars

\* C5: JSONEscaped returns a value and no error for every text, texts with
\* bytes of invalid encodings or encoded surrogates included, and the
\* String() of the value is valid UTF-8 that is legal in interchange.
C5_Total ==
    op = "JSONEscaped"
        => /\ err = Nil
           /\ ValidUTF8(String(out))
           /\ InterchangeValid(String(out))

\* A text with an encoded surrogate, a control character and a
\* noncharacter was coerced.
C5_Witness ==
    /\ op = "JSONEscaped"
    /\ arg = SurrogateBytesText
    /\ ~ValidUTF8(arg)
    /\ String(out) = << LowerA, RuneError, RuneError, RuneError, RuneError,
                        RuneError, 233 >>

\* C6: the String() of JSONFromConstant(c) is c itself, whatever c holds.
C6_Verbatim ==
    op = "JSONFromConstant" => (String(out) = arg /\ out = [str |-> arg])

\* A constant that is neither JSON nor valid UTF-8 was wrapped as it is.
C6_Witness ==
    /\ op = "JSONFromConstant"
    /\ arg = SurrogateBytesText
    /\ String(out) = SurrogateBytesText

\* C7: the String() of EmptyObjectJSON() is "{}" and that of
\* EmptyArrayJSON() is "[]", whatever was called before.
C7_EmptyLiterals ==
    /\ op = "EmptyObjectJSON" => String(out) = Text(<< "{", "}" >>)
    /\ op = "EmptyArrayJSON" => String(out) = Text(<< "[", "]" >>)

\* EmptyArrayJSON was called by a caller that already held values.
C7_Witness ==
    /\ op = "EmptyArrayJSON"
    /\ Len(held) = MaxHeld
    /\ held[1].prov = {"JSONFromConstant"}
    /\ String(out) = Text(<< "[", "]" >>)

\* C8: JSONFromValue returns the zero JSON value with every error, and with
\* no error the value that wraps the encoding of the tree it read; no other
\* function returns an error.
C8_NoPartialResult ==
    /\ (op = "JSONFromValue" /\ err # Nil) => out = ZeroJSON
    /\ (op = "JSONFromValue" /\ err = Nil)
           => /\ Unmarshal(arg).err = Nil
              /\ out = [str |-> encode(Unmarshal(arg).x)]
    /\ op # "JSONFromValue" => err = Nil

\* A number out of range, found after the syntax was accepted, left the
\* zero value.
C8_Witness ==
    /\ op = "JSONFromValue"
    /\ arg = HugeNumberText
    /\ err = "UnmarshalTypeError"
    /\ out = ZeroJSON

\* C9 as stated: every value that does not descend from JSONFromConstant
\* wraps valid UTF-8 without a character that is illegal in interchange.
C9_AlwaysInterchangeValid ==
    \A v \in Values :
        "JSONFromConstant" \notin v.prov
            => (ValidUTF8(String(v.json)) /\ InterchangeValid(String(v.json)))

\* C9: every value that does not descend from JSONFromConstant wraps valid
\* UTF-8, and it wraps no character that is illegal in interchange if it
\* does not descend from JSONFromValue either.
C9_Interchange ==
    \A v \in Values :
        "JSONFromConstant" \notin v.prov
            => /\ ValidUTF8(String(v.json))
               /\ "JSONFromValue" \notin v.prov => InterchangeValid(String(v.json))

\* A JSONFromValue result and a JSONEscaped result were concatenated: the
\* value is valid UTF-8 and holds a noncharacter.
C9_Witness ==
    /\ op = "JSONConcat"
    /\ prov = {"JSONFromValue", "JSONEscaped"}
    /\ ValidUTF8(String(out))
    /\ \E i \in DOMAIN String(out) : String(out)[i] = 65535
    /\ \E i \in DOMAIN String(out) : String(out)[i] = RuneError

\* C10: the text of a successful JSONFromValue holds no raw < > or &.
C10_NoMarkup ==
    (op = "JSONFromValue" /\ err = Nil)
        => \A i \in DOMAIN String(out) :
               String(out)[i] \notin {LessThan, GreaterThan, Ampersand}

\* "</script>&'" came out with its < > and & as \u003c, \u003e and
\* \u0026.
C10_Witness ==
    /\ op = "JSONFromValue"
    /\ arg = ScriptText
    /\ err = Nil
    /\ String(out) =
           Text(<< "\"", "\\", "u", "0", "0", "3", "c", "/", "s", "c", "r", "i",
                   "p", "t", "\\", "u", "0", "0", "3", "e", "\\", "u", "0", "0",
                   "2", "6", "'", "\"" >>)

=============================================================================
